---------------------------- MODULE Spec2Model ----------------------------
(***************************************************************************)
(* Model of the pull-request comment scripts of govuk-frontend:            *)
(*   .github/workflows/scripts/comments.mjs                                *)
(*     comment()      - find-or-create ("upsert") of a marked comment      *)
(*     commentDiff()  - post one diff, with a fallback message             *)
(*     commentDiffs() - post several diffs, joined by Promise.allSettled   *)
(*                                                                         *)
(* Strings are sequences of tokens; 'includes' is contiguous-subsequence   *)
(* search and 'join' interleaves a separator token, so that composing a    *)
(* body and searching it for a marker are two different computations.      *)
(***************************************************************************)
EXTENDS Integers, Sequences, FiniteSets, TLC

(***************************************************************************)
(* Bounds of the model                                                     *)
(***************************************************************************)
\* comments returned per page of the listing (GitHub's default is 30)
PerPage == 2
\* longest comment thread the issue starts with
MaxInit == 4
\* calls of comment() one client makes in a row
MaxCalls == 2

(***************************************************************************)
(* Program data                                                            *)
(***************************************************************************)
\* The descriptors handed to commentDiffs: {path, titleText, markerText}
\* (the titles are written without their backquotes around dist)
DIFFS ==
  << [path |-> "dist-js.diff",    titleText |-> "JavaScript changes to dist",
      markerText |-> "dist-diff-js"],
     [path |-> "dist-css.diff",   titleText |-> "CSS changes to dist",
      markerText |-> "dist-diff-css"],
     [path |-> "dist-other.diff", titleText |-> "Other changes to dist",
      markerText |-> "dist-diff-other"] >>

DiffIds == DOMAIN DIFFS

MarkerTexts == { DIFFS[d].markerText : d \in DiffIds }

\* GithubActionContext of the run being modelled, and of an earlier run
\* whose comments may already be on the issue.
Ctx == [owner |-> "alphagov", repo |-> "govuk-frontend", runId |-> "run-2",
        attempt |-> "1", commit |-> "sha-2"]

OldCtx == [owner |-> "alphagov", repo |-> "govuk-frontend", runId |-> "run-1",
           attempt |-> "1", commit |-> "sha-1"]

\* What readFile can resolve with: an empty file or a file with a diff
FileTexts == { "", "+added line" }

\* commentId before any match: 'let commentId' (undefined, falsy).  GitHub
\* comment ids are positive, so 0 is never the id of a comment.
NoId == 0

(***************************************************************************)
(* String helpers                                                          *)
(***************************************************************************)
Min(a, b) == IF a <= b THEN a ELSE b

\* String.prototype.includes on token sequences
Includes(s, t) ==
  \E i \in 0 .. (Len(s) - Len(t)) : SubSeq(s, i + 1, i + Len(t)) = t

\* String.prototype.startsWith on token sequences
StartsWith(s, t) == Len(s) >= Len(t) /\ SubSeq(s, 1, Len(t)) = t

\* Array.prototype.join('\n') over strings
RECURSIVE JoinLines(_)
JoinLines(parts) ==
  IF Len(parts) = 0 THEN << >>
  ELSE IF Len(parts) = 1 THEN parts[1]
  ELSE parts[1] \o << "\n" >> \o JoinLines(Tail(parts))

(***************************************************************************)
(* comments.mjs: pure functions                                            *)
(***************************************************************************)
\* githubActionRunUrl(context)
githubActionRunUrl(context) ==
  << "https://github.com/", context.owner, "/", context.repo,
     "/actions/runs/", context.runId, "/attempts/", context.attempt >>

\* renderCommentFooter({ context, commit })
renderCommentFooter(context) ==
  << "[Action run]", "(" >> \o githubActionRunUrl(context)
    \o << ")", " for ", context.commit >>

\* mutant: one token for every markerText
MarkerShared(markerText) == << "<!-- ", "dist-diff", " -->" >>

\* const marker = `<!-- ${markerText} -->`
Marker(markerText) == << "<!-- ", markerText, " -->" >>

\* mutant: the marker line is left out of the body
ComposeBodyNoMarker(context, titleText, markerText, bodyText) ==
  JoinLines(<< << "## ", titleText >>,
               bodyText,
               << "\n---" >>,
               renderCommentFooter(context) >>)

\* const body = [marker, `## ${titleText}`, bodyText, '\n---', footer].join('\n')
ComposeBody(context, titleText, markerText, bodyText) ==
  JoinLines(<< Marker(markerText),
               << "## ", titleText >>,
               bodyText,
               << "\n---" >>,
               renderCommentFooter(context) >>)

\* mutant: ?? in place of ||, which lets the empty string through
DiffTextOfNullish(fileText) == fileText

\* (await readFile(path, 'utf8')) || 'No changes found.'
DiffTextOf(fileText) == IF fileText = "" THEN "No changes found." ELSE fileText

\* bodyText of the first comment() call of commentDiff; the code fence of
\* three backticks is written ~~~ here
DiffBodyText(diffText) == << "~~~diff\n", diffText, "\n", "~~~" >>

\* mutant: the link is the run's URL, without the #artifacts fragment
FallbackBodyTextRunLink(context) ==
  << "The diff could not be posted as a comment. You can download it from the ",
     "[workflow artifacts]", "(" >>
    \o githubActionRunUrl(context) \o << ")", "." >>

\* bodyText of the comment() call in the catch block of commentDiff
FallbackBodyText(context) ==
  << "The diff could not be posted as a comment. You can download it from the ",
     "[workflow artifacts]", "(" >>
    \o githubActionRunUrl(context) \o << "#artifacts", ")", "." >>

(***************************************************************************)
(* The issue's comment thread (GitHub side)                                *)
(***************************************************************************)
\* Bodies of comments that can be on the issue before the run starts
OldComment(markerText) ==
  ComposeBody(OldCtx, "Changes", markerText, DiffBodyText("-removed line"))

QuoteComment(markerText) ==
  << "I see the bot uses " >> \o Marker(markerText) \o << " to find its comment" >>

PlainComment == << "Looks good to me" >>

InitBodies ==
  { PlainComment, OldComment("dist-diff-js"), QuoteComment("dist-diff-js") }

\* ids are handed out in creation order, starting at 1
Thread(bodies) == [i \in 1 .. Len(bodies) |-> [id |-> i, body |-> bodies[i]]]

RECURSIVE SeqsUpTo(_, _)
SeqsUpTo(S, n) ==
  IF n = 0 THEN { << >> }
  ELSE LET shorter == SeqsUpTo(S, n - 1)
       IN  shorter \cup { Append(s, x) : s \in { t \in shorter : Len(t) = n - 1 }, x \in S }

InitialThreads == { Thread(bs) : bs \in SeqsUpTo(InitBodies, MaxInit) }

\* listComments, page n of the thread as it is when the page is fetched
PageOf(thread, n) ==
  SubSeq(thread, (n - 1) * PerPage + 1, Min(n * PerPage, Len(thread)))

\* the listing's Link header has a rel="next"
HasNextPage(thread, n) == Len(thread) > n * PerPage

\* createComment: a new comment at the end of the thread, with a fresh id
CreateComment(thread, body) ==
  Append(thread, [id |-> Len(thread) + 1, body |-> body])

\* updateComment: the body of comment `id` is replaced
UpdateComment(thread, id, body) ==
  [i \in 1 .. Len(thread) |->
     IF thread[i].id = id THEN [thread[i] EXCEPT !.body = body] ELSE thread[i]]

(***************************************************************************)
(* State                                                                   *)
(***************************************************************************)
VARIABLES
  comments,   \* the issue's comment thread: a sequence of [id, body]
  call,       \* call[p]: the frame of process p's current call of comment()
  diff,       \* diff[d]: where commentDiff for DIFFS[d] stands
  batch,      \* commentDiffs: its position and what it threw
  posted,     \* posted[m]: bodies written by successful comment() calls for
              \* marker text m, oldest first (history)
  started,    \* number of comment() calls the client has started (history)
  initial,    \* the thread the issue had at the start (history)
  raced,      \* marker texts for which two comment() calls have overlapped
              \* (history)
  stats,      \* commentStats: its position and the rows it was given
  build       \* the build-package task: its steps and the directories

vars == << comments, call, diff, batch, posted, started, initial, raced, stats,
           build >>

Procs == DiffIds

\* the process that calls comment() directly
Client == CHOOSE p \in Procs : \A q \in Procs : p <= q

IdleFrame ==
  [pc |-> "idle", markerText |-> "", titleText |-> "", bodyText |-> << >>,
   body |-> << >>, commentId |-> NoId, page |-> 1, pages |-> << >>,
   wrote |-> << >>, err |-> "none"]

(***************************************************************************)
(* comment(): its pieces                                                   *)
(***************************************************************************)
\* Entry of comment(): marker and body are composed, commentId is undefined,
\* and the iterator is about to request the first page.
EnterComment(context, titleText, markerText, bodyText) ==
  [pc |-> "list", markerText |-> markerText, titleText |-> titleText,
   bodyText |-> bodyText,
   body |-> ComposeBody(context, titleText, markerText, bodyText),
   commentId |-> NoId, page |-> 1, pages |-> << >>, wrote |-> << >>,
   err |-> "none"]

\* mutant: startsWith in place of includes
FindAtStart(page, marker) ==
  LET hits == { i \in 1 .. Len(page) : StartsWith(page[i].body, marker) }
  IN  IF hits = {} THEN << >>
      ELSE << page[CHOOSE i \in hits : \A j \in hits : i <= j] >>

\* mutant: findLast in place of find
FindLast(page, marker) ==
  LET hits == { i \in 1 .. Len(page) : Includes(page[i].body, marker) }
  IN  IF hits = {} THEN << >>
      ELSE << page[CHOOSE i \in hits : \A j \in hits : i >= j] >>

\* comments.find((comment) => !!comment.body?.includes(marker)):
\* << >> for undefined, else << the first matching comment >>
Find(page, marker) ==
  LET hits == { i \in 1 .. Len(page) : Includes(page[i].body, marker) }
  IN  IF hits = {} THEN << >>
      ELSE << page[CHOOSE i \in hits : \A j \in hits : i <= j] >>

\* mutant: the first match is kept, if (comment && !commentId)
ScanPageFirstWins(commentId, page, marker) ==
  LET hits == { i \in 1 .. Len(page) : Includes(page[i].body, marker) }
  IN  IF hits # {} /\ commentId = NoId
        THEN page[CHOOSE i \in hits : \A j \in hits : i <= j].id
        ELSE commentId

\* The loop body: if (comment) { commentId = comment.id }
ScanPage(commentId, page, marker) ==
  LET found == Find(page, marker)
  IN  IF found # << >> THEN found[1].id ELSE commentId

\* mutant: the branches of the conditional are swapped
WriteRequestSwapped(commentId, body) ==
  IF commentId # NoId
    THEN [op |-> "create", id |-> NoId, body |-> body]
    ELSE [op |-> "update", id |-> commentId, body |-> body]

\* mutant: createComment whatever the loop found
WriteRequestCreateOnly(commentId, body) ==
  [op |-> "create", id |-> NoId, body |-> body]

\* The request made after the loop: !commentId ? createComment : updateComment
WriteRequest(commentId, body) ==
  IF commentId = NoId
    THEN [op |-> "create", id |-> NoId, body |-> body]
    ELSE [op |-> "update", id |-> commentId, body |-> body]

\* mutant: an update also leaves a new comment behind
ApplyWriteBoth(thread, req) ==
  IF req.op = "create" THEN CreateComment(thread, req.body)
  ELSE CreateComment(UpdateComment(thread, req.id, req.body), req.body)

\* What GitHub does with a successful write request
ApplyWrite(thread, req) ==
  IF req.op = "create" THEN CreateComment(thread, req.body)
  ELSE UpdateComment(thread, req.id, req.body)

\* mutant: the rejection is caught and dropped inside comment()
ThrowSwallowed(frame, where) == [frame EXCEPT !.pc = "ok", !.err = where]

\* A rejected await inside comment(): nothing catches it, the call rejects
Throw(frame, where) == [frame EXCEPT !.pc = "failed", !.err = where]

(***************************************************************************)
(* commentDiff(): what runs when its awaited comment() call settles        *)
(***************************************************************************)
\* Not a commentDiff: the record of a process that calls comment() itself
\* (file: << >> until readFile has resolved, then << the text it gave >>)
NoDiff == [pc |-> "none", file |-> << >>, diffText |-> "", calls |-> 0,
           readErr |-> FALSE, postErr |-> "none"]

\* commentDiff entered, awaiting readFile
AtRead == [NoDiff EXCEPT !.pc = "read"]

\* readFile resolved with fileText: diffText is set and the comment() call of
\* the try block is entered
AfterRead(d, fileText) ==
  LET diffText == DiffTextOf(fileText)
  IN  [diff |-> [AtRead EXCEPT !.pc = "post", !.file = << fileText >>,
                               !.diffText = diffText, !.calls = 1],
       call |-> EnterComment(Ctx, DIFFS[d].titleText, DIFFS[d].markerText,
                             DiffBodyText(diffText))]

\* mutant: readFile is awaited inside the try, so its rejection is caught
AfterReadErrorCaught(d, dr) ==
  [diff |-> [dr EXCEPT !.pc = "fallback", !.readErr = TRUE, !.calls = 1],
   call |-> EnterComment(Ctx, DIFFS[d].titleText, DIFFS[d].markerText,
                         FallbackBodyText(Ctx))]

\* readFile rejected: the await is outside the try, so commentDiff rejects
AfterReadError(d, dr) ==
  [diff |-> [dr EXCEPT !.pc = "rejected", !.readErr = TRUE], call |-> IdleFrame]

\* mutant: no catch block, the first rejection rejects commentDiff
AfterCommentNoCatch(d, dr, f) ==
  IF dr.pc \notin { "post", "fallback" } \/ f.pc \notin { "ok", "failed" }
    THEN [diff |-> dr, call |-> f]
  ELSE IF f.pc = "ok"
    THEN [diff |-> [dr EXCEPT !.pc = "fulfilled"], call |-> f]
  ELSE [diff |-> [dr EXCEPT !.pc = "rejected", !.postErr = f.err], call |-> f]

\* The comment() call of process d has reached frame f.  While it is still
\* running, or when d is no commentDiff, nothing else happens.  When it has
\* settled: a resolved call makes commentDiff return; a rejection of the call
\* in the try block enters the call of the catch block; a rejection of the
\* call in the catch block rejects commentDiff.
AfterComment(d, dr, f) ==
  IF dr.pc \notin { "post", "fallback" } \/ f.pc \notin { "ok", "failed" }
    THEN [diff |-> dr, call |-> f]
  ELSE IF f.pc = "ok"
    THEN [diff |-> [dr EXCEPT !.pc = "fulfilled"], call |-> f]
  ELSE IF dr.pc = "post"
    THEN [diff |-> [dr EXCEPT !.pc = "fallback", !.postErr = f.err, !.calls = @ + 1],
          call |-> EnterComment(Ctx, DIFFS[d].titleText, DIFFS[d].markerText,
                                FallbackBodyText(Ctx))]
  ELSE [diff |-> [dr EXCEPT !.pc = "rejected"], call |-> f]

\* process p's comment() call moves to frame f, and its caller runs on
Resume(p, f) ==
  LET after == AfterComment(p, diff[p], f)
  IN  /\ call' = [call EXCEPT ![p] = after.call]
      /\ diff' = [diff EXCEPT ![p] = after.diff]

(***************************************************************************)
(* comment(): one step per response of the GitHub API                      *)
(***************************************************************************)
\* mutant: the loop breaks once a page has given a match
AfterPageEarlyExit(commentId, hasNext) ==
  IF hasNext /\ commentId = NoId THEN "list" ELSE "write"

\* Where the for-await goes after a page: the loop body has no break or
\* return, so it asks for the next page as long as there is one
AfterPage(commentId, hasNext) == IF hasNext THEN "list" ELSE "write"

\* One page of the listing arrives and is scanned; the iterator goes on while
\* the listing has a next page, and the loop ends only when it has none.
ListPage(p) ==
  /\ call[p].pc = "list"
  /\ LET f    == call[p]
         page == PageOf(comments, f.page)
         id   == ScanPage(f.commentId, page, Marker(f.markerText))
     IN  Resume(p, [f EXCEPT !.commentId = id,
                            !.pages = Append(@, page),
                            !.page = @ + 1,
                            !.pc = AfterPage(id, HasNextPage(comments, f.page))])
  /\ UNCHANGED << comments, batch, posted, started, initial, raced, stats, build >>

\* The request for a page fails: the for-await throws out of comment()
ListFail(p) ==
  /\ call[p].pc = "list"
  /\ Resume(p, Throw(call[p], "list"))
  /\ UNCHANGED << comments, batch, posted, started, initial, raced, stats, build >>

\* createComment / updateComment succeeds
WriteOk(p) ==
  /\ call[p].pc = "write"
  /\ LET f   == call[p]
         req == WriteRequest(f.commentId, f.body)
     IN  /\ comments' = ApplyWrite(comments, req)
         /\ Resume(p, [f EXCEPT !.pc = "ok", !.wrote = Append(@, req)])
         /\ posted' = [posted EXCEPT ![f.markerText] = Append(@, f.body)]
  /\ UNCHANGED << batch, started, initial, raced, stats, build >>

\* createComment / updateComment fails: the await throws out of comment()
WriteFail(p) ==
  /\ call[p].pc = "write"
  /\ LET f   == call[p]
         req == WriteRequest(f.commentId, f.body)
     IN  Resume(p, Throw([f EXCEPT !.wrote = Append(@, req)], "write"))
  /\ UNCHANGED << comments, batch, posted, started, initial, raced, stats, build >>

(***************************************************************************)
(* commentDiff(): the response to readFile                                 *)
(***************************************************************************)
ReadFile(d, fileText) ==
  /\ diff[d].pc = "read"
  /\ LET after == AfterRead(d, fileText)
     IN  /\ diff' = [diff EXCEPT ![d] = after.diff]
         /\ call' = [call EXCEPT ![d] = after.call]
  /\ UNCHANGED << comments, batch, posted, started, initial, raced, stats, build >>

ReadFail(d) ==
  /\ diff[d].pc = "read"
  /\ LET after == AfterReadError(d, diff[d])
     IN  /\ diff' = [diff EXCEPT ![d] = after.diff]
         /\ call' = [call EXCEPT ![d] = after.call]
  /\ UNCHANGED << comments, batch, posted, started, initial, raced, stats, build >>

(***************************************************************************)
(* commentDiffs(): Promise.allSettled over the commentDiff calls           *)
(***************************************************************************)
Settled(d) == diff[d].pc \in { "fulfilled", "rejected" }

\* mutant: Promise.all, which rejects at the first rejection
FirstRejectionOrAllSettled ==
  \/ \E d \in DiffIds : diff[d].pc = "rejected"
  \/ \A d \in DiffIds : Settled(d)

\* Promise.allSettled resolves once every promise has settled
AllSettled == \A d \in DiffIds : Settled(d)

\* the array Promise.allSettled resolves with
SettledResults == [d \in DiffIds |-> [status |-> diff[d].pc]]

\* mutant: every in place of some
EveryRejected(results) == \A i \in DOMAIN results : results[i].status = "rejected"

\* results.some((result) => result.status === 'rejected')
SomeRejected(results) == \E i \in DOMAIN results : results[i].status = "rejected"

\* the await of commentDiffs resumes: it throws the aggregate error or returns
Join ==
  /\ batch.pc = "awaiting"
  /\ AllSettled
  /\ LET results == SettledResults
     IN  batch' = IF SomeRejected(results)
                    THEN [pc |-> "thrown",
                          thrown |-> Append(batch.thrown,
                                            [message |-> "Posting diff comment failed",
                                             cause |-> results])]
                    ELSE [batch EXCEPT !.pc = "returned"]
  /\ UNCHANGED << comments, call, diff, posted, started, initial, raced, stats, build >>

(***************************************************************************)
(* A client calling comment() again and again on one issue                 *)
(***************************************************************************)
\* the bodyText values the client passes
ClientBodyTexts == { DiffBodyText(DiffTextOf(t)) : t \in FileTexts }

ClientCall(d, bodyText) ==
  /\ call[Client].pc \in { "idle", "ok", "failed" }
  /\ started < MaxCalls
  /\ call' = [call EXCEPT ![Client] =
                EnterComment(Ctx, DIFFS[d].titleText, DIFFS[d].markerText, bodyText)]
  /\ started' = started + 1
  /\ UNCHANGED << comments, diff, batch, posted, initial, raced, stats, build >>

(***************************************************************************)
(* renderTable() and commentStats()                                        *)
(***************************************************************************)
\* The descriptor handed to commentStats, and the number of the pull request
STATS == [path |-> "workspace", titleText |-> "Stats", markerText |-> "stats"]

IssueNumber == "1234"

AllMarkerTexts == MarkerTexts \cup { STATS.markerText }

\* Array.prototype.join(sep) over strings; undefined joins as the empty string
RECURSIVE JoinWith(_, _)
JoinWith(cells, sep) ==
  IF Len(cells) = 0 THEN << >>
  ELSE IF Len(cells) = 1 THEN cells[1]
  ELSE cells[1] \o << sep >> \o JoinWith(Tail(cells), sep)

\* header row, separator row and one row per entry, joined by line breaks,
\* with a final line break
TableText(headers, rows) ==
  JoinLines(<< << "| " >> \o JoinWith(headers, " | ") \o << " |" >>,
               << "| " >> \o JoinWith([i \in DOMAIN headers |-> << "---" >>], " | ")
                 \o << " |" >> >>
            \o [i \in DOMAIN rows |->
                  << "| " >> \o JoinWith(rows[i], " | ") \o << " |" >>])
    \o << "\n" >>

\* mutant: the check of the rows' lengths is left out
RenderTableUnchecked(headers, rows) ==
  [error |-> FALSE, text |-> TableText(headers, rows)]

\* renderTable(headers, rows): it throws, returning nothing, when some row has
\* not as many cells as the headers
renderTable(headers, rows) ==
  IF \E i \in DOMAIN rows : Len(rows[i]) # Len(headers)
    THEN [error |-> TRUE, text |-> << >>]
    ELSE [error |-> FALSE, text |-> TableText(headers, rows)]

\* const fileSizeHeaders = ['File', 'Size'], const modulesHeaders = ['File', 'Size']
TableHeaders == << << "File" >>, << "Size" >> >>

\* getReviewAppUrl(prNumber)
getReviewAppUrl(prNumber) ==
  << "https://govuk-frontend-pr-", prNumber, ".herokuapp.com", "/" >>

\* What the two getFileSizes calls can resolve with, taken together: no row,
\* rows of two cells, and rows with a cell missing or a cell too many
FileSizeRowChoices ==
  { << >>,
    << << << "dist/all.js" >>, << "1 KiB" >> >>, << << "dist/all.css" >>, << "2 KiB" >> >> >>,
    << << << "dist/all.js" >>, << "1 KiB" >> >>, << << "dist/all.css" >> >> >>,
    << << << "dist/all.js" >>, << "1 KiB" >>, << "gzip" >> >> >> }

\* What Promise.all(modulePaths.map(getStats)) can resolve with: entries
\* [modulePath, moduleSize], and entries with the size missing or one element
\* too many.  A module path is its stem and its extension.
StatsChoices ==
  { << << << "all.", "mjs" >>, << "10 KiB" >> >> >>,
    << << << "all.", "mjs" >> >> >>,
    << << << "all.", "mjs" >>, << "10 KiB" >>, << "extra" >> >> >> }

\* modulePath.replace('mjs', 'html'): the first occurrence is replaced
ReplaceMjs(modulePath) ==
  LET hits == { i \in DOMAIN modulePath : modulePath[i] = "mjs" }
  IN  IF hits = {} THEN modulePath
      ELSE [i \in DOMAIN modulePath |->
              IF i = (CHOOSE h \in hits : \A j \in hits : h <= j) THEN "html"
              ELSE modulePath[i]]

\* ([modulePath, moduleSize]) => [`[${modulePath}](${statsURL})`, moduleSize]:
\* a row of two cells whatever the entry's length; a missing size is undefined
ModuleRow(entry, reviewAppURL) ==
  << << "[" >> \o entry[1] \o << "](" >> \o reviewAppURL \o << "docs/stats/" >>
       \o ReplaceMjs(entry[1]) \o << ")" >>,
     IF Len(entry) >= 2 THEN entry[2] ELSE << >> >>

\* commentStats is not running
NoStats == [pc |-> "none", fileSizeRows |-> << >>, fileSizeText |-> << >>,
            entries |-> << >>, modulesRows |-> << >>, tables |-> << >>]

\* [fileSizeTitle, fileSizeTable].join('\n')
FileSizeText(table) == JoinLines(<< << "### File sizes" >>, table >>)

\* [modulesTitle, modulesTable, modulesFooter].join('\n')
ModulesText(table, reviewAppURL) ==
  JoinLines(<< << "### Modules" >>, table,
               << "[View stats and visualisations on the review app](" >>
                 \o reviewAppURL \o << ")" >> >>)

\* the getFileSizes calls have resolved with rows: the first table is rendered,
\* and commentStats rejects if renderTable throws
StatsFiles(rows) ==
  /\ stats.pc = "files"
  /\ LET table == renderTable(TableHeaders, rows)
     IN  stats' = [stats EXCEPT
                     !.pc = IF table.error THEN "rejected" ELSE "modules",
                     !.fileSizeRows = rows,
                     !.fileSizeText = IF table.error THEN << >> ELSE FileSizeText(table.text),
                     !.tables = Append(@, [rows |-> rows, out |-> table])]
  /\ UNCHANGED << comments, call, diff, batch, posted, started, initial, raced, build >>

\* getFileSizes or getStats rejects: commentStats rejects
StatsAwaitFail ==
  /\ stats.pc \in { "files", "modules" }
  /\ stats' = [stats EXCEPT !.pc = "rejected"]
  /\ UNCHANGED << comments, call, diff, batch, posted, started, initial, raced, build >>

\* the getStats calls have resolved with entries: the rows are built, the
\* second table is rendered and comment() is entered
StatsModules(entries) ==
  /\ stats.pc = "modules"
  /\ LET reviewAppURL == getReviewAppUrl(IssueNumber)
         rows  == [i \in DOMAIN entries |-> ModuleRow(entries[i], reviewAppURL)]
         table == renderTable(TableHeaders, rows)
     IN  /\ stats' = [stats EXCEPT
                        !.pc = IF table.error THEN "rejected" ELSE "comment",
                        !.entries = entries,
                        !.modulesRows = rows,
                        !.tables = Append(@, [rows |-> rows, out |-> table])]
         /\ call' = IF table.error THEN call
                    ELSE [call EXCEPT ![Client] =
                            EnterComment(Ctx, STATS.titleText, STATS.markerText,
                              JoinLines(<< stats.fileSizeText,
                                           ModulesText(table.text, reviewAppURL) >>))]
  /\ UNCHANGED << comments, diff, batch, posted, started, initial, raced, build >>

(***************************************************************************)
(* tasks/build/package.mjs: the build-package task                         *)
(***************************************************************************)
\* The arguments of gulp.series, in the order written
PackageTasks ==
  << "clean (stats)", "clean:package", "assets", "fixtures", "scripts",
     "styles", "templates", "copy:files 'govuk-prototype-kit'" >>

\* what the package directory can hold: one entry per step that writes to it
Outputs ==
  { "assets", "fixtures", "scripts", "styles", "templates", "govuk-prototype-kit" }

\* the task is not running
NoBuild == [pc |-> "none", started |-> << >>, finished |-> << >>,
            failed |-> << >>, statsDir |-> {}, destDir |-> {}]

\* the directories after a step has completed
TaskEffect(task, b) ==
  IF task = "clean (stats)" THEN [b EXCEPT !.statsDir = {}]
  ELSE IF task = "clean:package" THEN [b EXCEPT !.destDir = {}]
  ELSE IF task = "copy:files 'govuk-prototype-kit'"
    THEN [b EXCEPT !.destDir = @ \cup { "govuk-prototype-kit" }]
  ELSE [b EXCEPT !.destDir = @ \cup { task }]

\* steps that have been started and have neither completed nor failed
RunningTasks(b) ==
  { i \in DOMAIN PackageTasks :
      /\ \E k \in DOMAIN b.started : b.started[k] = PackageTasks[i]
      /\ \A k \in DOMAIN b.finished : b.finished[k] # PackageTasks[i]
      /\ \A k \in DOMAIN b.failed : b.failed[k] # PackageTasks[i] }

\* mutant: gulp.parallel, which starts every task at once and lets the others
\* run on when one fails
MayStartParallel(b, i) ==
  /\ b.pc = "running"
  /\ \A k \in DOMAIN b.started : b.started[k] # PackageTasks[i]

\* gulp.series: a task is started when the one before it has completed, the
\* first one at once, and none after a task has failed
MayStart(b, i) ==
  /\ b.pc = "running"
  /\ b.failed = << >>
  /\ Len(b.started) = Len(b.finished)
  /\ i = Len(b.finished) + 1

StartTask(i) ==
  /\ MayStart(build, i)
  /\ build' = [build EXCEPT !.started = Append(@, PackageTasks[i])]
  /\ UNCHANGED << comments, call, diff, batch, posted, started, initial, raced, stats >>

\* a step completes; the series is done when its last task has completed
FinishTask(i) ==
  /\ i \in RunningTasks(build)
  /\ LET b == TaskEffect(PackageTasks[i],
                         [build EXCEPT !.finished = Append(@, PackageTasks[i])])
     IN  build' = [b EXCEPT !.pc = IF Len(b.finished) = Len(PackageTasks) /\ b.failed = << >>
                                    THEN "done" ELSE b.pc]
  /\ UNCHANGED << comments, call, diff, batch, posted, started, initial, raced, stats >>

\* a step fails: the series ends with its error
FailTask(i) ==
  /\ i \in RunningTasks(build)
  /\ build' = [build EXCEPT !.failed = Append(@, PackageTasks[i]), !.pc = "failed"]
  /\ UNCHANGED << comments, call, diff, batch, posted, started, initial, raced, stats >>

(***************************************************************************)
(* Two clients calling comment() on one issue at the same time             *)
(***************************************************************************)
Clients == { Client, Client + 1 }

\* comment() calls that have been entered and have not settled
Active(p) == call[p].pc \in { "list", "write" }

ConcCall(p, d, bodyText) ==
  /\ ~Active(p)
  /\ started < MaxCalls
  /\ call' = [call EXCEPT ![p] =
                EnterComment(Ctx, DIFFS[d].titleText, DIFFS[d].markerText, bodyText)]
  /\ started' = started + 1
  /\ raced' = IF \E q \in Clients \ { p } :
                     Active(q) /\ call[q].markerText = DIFFS[d].markerText
                THEN raced \cup { DIFFS[d].markerText }
                ELSE raced
  /\ UNCHANGED << comments, diff, batch, posted, initial, stats, build >>

(***************************************************************************)
(* Specifications                                                          *)
(***************************************************************************)
NoBatch == [pc |-> "none", thrown |-> << >>]

InitCommon ==
  /\ call = [p \in Procs |-> IdleFrame]
  /\ posted = [m \in AllMarkerTexts |-> << >>]
  /\ started = 0
  /\ raced = {}

InitSeq ==
  /\ InitCommon
  /\ comments \in InitialThreads
  /\ initial = comments
  /\ diff = [d \in DiffIds |-> NoDiff]
  /\ batch = NoBatch
  /\ stats = NoStats
  /\ build = NoBuild

NextSeq ==
  \/ \E d \in DiffIds, t \in ClientBodyTexts : ClientCall(d, t)
  \/ ListPage(Client)
  \/ ListFail(Client)
  \/ WriteOk(Client)
  \/ WriteFail(Client)

\* comment() called repeatedly on one issue, one call at a time
SpecSeq == InitSeq /\ [][NextSeq]_vars

InitStats ==
  /\ InitCommon
  /\ comments \in InitialThreads
  /\ initial = comments
  /\ diff = [d \in DiffIds |-> NoDiff]
  /\ batch = NoBatch
  /\ stats = [NoStats EXCEPT !.pc = "files"]
  /\ build = NoBuild

NextStats ==
  \/ \E rows \in FileSizeRowChoices : StatsFiles(rows)
  \/ \E entries \in StatsChoices : StatsModules(entries)
  \/ StatsAwaitFail
  \/ ListPage(Client)
  \/ ListFail(Client)
  \/ WriteOk(Client)
  \/ WriteFail(Client)

\* one call of commentStats
SpecStats == InitStats /\ [][NextStats]_vars

\* threads the issue can have when the two clients start: with and without
\* comments of an earlier run, on one page or more
ConcThreads ==
  { Thread(bs) : bs \in SeqsUpTo({ PlainComment, OldComment("dist-diff-js") },
                                  MaxInit - 1) }

InitConc ==
  /\ InitCommon
  /\ comments \in ConcThreads
  /\ initial = comments
  /\ diff = [d \in DiffIds |-> NoDiff]
  /\ batch = NoBatch
  /\ stats = NoStats
  /\ build = NoBuild

NextConc ==
  \/ \E p \in Clients, d \in DiffIds, t \in ClientBodyTexts : ConcCall(p, d, t)
  \/ \E p \in Clients : ListPage(p)
  \/ \E p \in Clients : ListFail(p)
  \/ \E p \in Clients : WriteOk(p)
  \/ \E p \in Clients : WriteFail(p)

\* comment() called by two clients on one issue, their calls overlapping
SpecConc == InitConc /\ [][NextConc]_vars

\* the task is run on directories that hold anything an earlier build left
InitBuild ==
  /\ InitCommon
  /\ comments = Thread(<< >>)
  /\ initial = comments
  /\ diff = [d \in DiffIds |-> NoDiff]
  /\ batch = NoBatch
  /\ stats = NoStats
  /\ build \in { [NoBuild EXCEPT !.pc = "running", !.statsDir = sd, !.destDir = dd] :
                   sd \in SUBSET { "stats" }, dd \in SUBSET Outputs }

NextBuild ==
  \/ \E i \in DOMAIN PackageTasks : StartTask(i)
  \/ \E i \in DOMAIN PackageTasks : FinishTask(i)
  \/ \E i \in DOMAIN PackageTasks : FailTask(i)

\* one run of the build-package task
SpecBuild == InitBuild /\ [][NextBuild]_vars

\* threads the issue can have when the workflow run starts
BatchThreads ==
  { Thread(<< >>),
    Thread(<< OldComment("dist-diff-js"), PlainComment, OldComment("dist-diff-css") >>),
    Thread(<< OldComment("dist-diff-js"), OldComment("dist-diff-js") >>) }

\* commentDiffs has mapped every descriptor to a commentDiff call, each of
\* which is at its readFile
Init ==
  /\ InitCommon
  /\ comments \in BatchThreads
  /\ initial = comments
  /\ diff = [d \in DiffIds |-> AtRead]
  /\ batch = [NoBatch EXCEPT !.pc = "awaiting"]
  /\ stats = NoStats
  /\ build = NoBuild

Next ==
  \/ \E d \in DiffIds, t \in FileTexts : ReadFile(d, t)
  \/ \E d \in DiffIds : ReadFail(d)
  \/ \E d \in DiffIds : ListPage(d)
  \/ \E d \in DiffIds : ListFail(d)
  \/ \E d \in DiffIds : WriteOk(d)
  \/ \E d \in DiffIds : WriteFail(d)
  \/ Join

\* one run of commentDiffs over DIFFS
Spec == Init /\ [][Next]_vars

(***************************************************************************)
(* Properties of comment(), checked under SpecSeq                          *)
(***************************************************************************)
\* the comments of the pages a call has been given, in the order received
RECURSIVE Flatten(_)
Flatten(pages) == IF pages = << >> THEN << >> ELSE Head(pages) \o Flatten(Tail(pages))

\* positions of the comments of a sequence whose body holds the token
Holders(thread, marker) ==
  { i \in DOMAIN thread : Includes(thread[i].body, marker) }

\* pages of a call's listing on which some comment holds the token
HitPages(f) ==
  { k \in DOMAIN f.pages : Holders(f.pages[k], Marker(f.markerText)) # {} }

LastOf(S) == CHOOSE k \in S : \A j \in S : j <= k

\* C1: when the issue started with no comment holding the marker token of M
\* and two or more calls of comment() for M have succeeded, one after the
\* other, exactly one comment of the issue holds the token, and its body is
\* the body composed by the latest of those calls.
C1_UpsertIdempotence ==
  \A m \in MarkerTexts :
    (Holders(initial, Marker(m)) = {} /\ Len(posted[m]) >= 2)
      => /\ Cardinality(Holders(comments, Marker(m))) = 1
         /\ \A i \in Holders(comments, Marker(m)) :
              comments[i].body = posted[m][Len(posted[m])]

C1_Witness ==
  \E m \in MarkerTexts :
    /\ Holders(initial, Marker(m)) = {}
    /\ Len(posted[m]) >= 2
    /\ posted[m][1] # posted[m][2]
    /\ Len(comments) > PerPage

\* C2: a call of comment() that got through the listing has made exactly one
\* write request; it is createComment exactly when no listed comment holds
\* the marker token, and otherwise updateComment with the id of a listed
\* comment that holds the token.
C2_CreateOrUpdate ==
  LET f      == call[Client]
      listed == Flatten(f.pages)
      hits   == Holders(listed, Marker(f.markerText))
  IN  /\ f.pc \in { "list", "write" } => f.wrote = << >>
      /\ (f.pc \in { "ok", "failed" } /\ f.err # "list")
           => /\ Len(f.wrote) = 1
              /\ f.wrote[1].op \in { "create", "update" }
              /\ f.wrote[1].op = "create" <=> hits = {}
              /\ f.wrote[1].op = "update"
                   => \E i \in hits : listed[i].id = f.wrote[1].id

C2_Witness ==
  /\ call[Client].pc = "ok"
  /\ call[Client].wrote[1].op = "update"
  /\ started = MaxCalls
  /\ \E m \in MarkerTexts : Len(posted[m]) = 1 /\ Holders(initial, Marker(m)) = {}

C9_FailsOnlyOnWrite ==
  call[Client].pc = "failed" => call[Client].err = "write"

\* C9 amended: comment() fails exactly when a request for a page of the
\* listing or the create/update request failed, and the failure reaches the
\* caller; a failed listing ends the call before any write request.
C9_FailsOnListOrWrite ==
  LET f == call[Client]
  IN  /\ f.pc = "failed" => f.err \in { "list", "write" }
      /\ f.err # "none" => f.pc = "failed"
      /\ f.err = "list" => f.wrote = << >>
      /\ f.err = "write" => Len(f.wrote) = 1
      /\ f.pc = "ok" => Len(f.wrote) = 1

C9_Witness ==
  /\ call[Client].pc = "failed"
  /\ call[Client].err = "list"
  /\ call[Client].pages # << >>

\* C10 as stated: every body written begins with the marker token, and the
\* comment a call updates had the token at the start of its body.
C10_RecognisedOnlyAtStart ==
  LET f      == call[Client]
      marker == Marker(f.markerText)
      listed == Flatten(f.pages)
  IN  f.wrote # << >>
        => /\ StartsWith(f.wrote[1].body, marker)
           /\ f.wrote[1].op = "update"
                => \A i \in DOMAIN listed :
                     listed[i].id = f.wrote[1].id => StartsWith(listed[i].body, marker)

\* C10 amended: every body written begins with the marker token, and a listed
\* comment is recognised when its body holds the token anywhere: a call that
\* listed such a comment updates a comment holding the token, it does not
\* create one.
C10_RecognisedAnywhere ==
  LET f      == call[Client]
      marker == Marker(f.markerText)
      listed == Flatten(f.pages)
  IN  f.wrote # << >>
        => /\ StartsWith(f.wrote[1].body, marker)
           /\ Holders(listed, marker) # {}
                => /\ f.wrote[1].op = "update"
                   /\ \A i \in DOMAIN listed :
                        listed[i].id = f.wrote[1].id => Includes(listed[i].body, marker)

C10_Witness ==
  LET f      == call[Client]
      marker == Marker(f.markerText)
      listed == Flatten(f.pages)
  IN  /\ f.pc = "ok"
      /\ f.wrote[1].op = "update"
      /\ \E i \in DOMAIN listed :
           /\ listed[i].id = f.wrote[1].id
           /\ Includes(listed[i].body, marker)
           /\ ~StartsWith(listed[i].body, marker)

(***************************************************************************)
(* Properties of commentDiff() and commentDiffs(), checked under Spec      *)
(***************************************************************************)
Rejected == { d \in DiffIds : diff[d].pc = "rejected" }

Fulfilled == { d \in DiffIds : diff[d].pc = "fulfilled" }

\* the target of the first markdown link of a text: what stands between the
\* first "(" and the ")" that follows it
LinkTarget(text) ==
  LET opens == { i \in DOMAIN text : text[i] = "(" }
  IN  IF opens = {} THEN << >>
      ELSE LET from   == CHOOSE i \in opens : \A j \in opens : i <= j
               closes == { i \in DOMAIN text : i > from /\ text[i] = ")" }
           IN  IF closes = {} THEN << >>
               ELSE SubSeq(text, from + 1, (CHOOSE i \in closes : \A j \in closes : i <= j) - 1)

\* C4: when commentDiffs has completed and exactly one commentDiff rejected,
\* every other descriptor's commentDiff fulfilled and its comment is on the
\* issue with the body its call composed, and commentDiffs threw one error
\* whose cause holds one settled result per descriptor.
C4_FailureIsolation ==
  (batch.pc # "awaiting" /\ Cardinality(Rejected) = 1)
    => /\ \A d \in DiffIds \ Rejected :
            /\ diff[d].pc = "fulfilled"
            /\ call[d].pc = "ok"
            /\ \E i \in Holders(comments, Marker(DIFFS[d].markerText)) :
                 comments[i].body = call[d].body
       /\ batch.pc = "thrown"
       /\ Len(batch.thrown) = 1
       /\ DOMAIN batch.thrown[1].cause = DiffIds
       /\ \A d \in DiffIds :
            /\ batch.thrown[1].cause[d].status \in { "fulfilled", "rejected" }
            /\ batch.thrown[1].cause[d].status = "rejected" <=> d \in Rejected

C4_Witness ==
  /\ batch.pc = "thrown"
  /\ Cardinality(Rejected) = 1
  /\ \E d \in Fulfilled : call[d].wrote[1].op = "create"
  /\ \E d \in Fulfilled : call[d].wrote[1].op = "update"

\* C5: commentDiffs has completed only when every commentDiff has settled; it
\* has thrown only when some commentDiff rejected and has returned only when
\* all of them fulfilled.
C5_JoinAll ==
  /\ batch.pc # "awaiting" => \A d \in DiffIds : Settled(d)
  /\ batch.pc = "thrown" => Rejected # {} /\ Len(batch.thrown) = 1
  /\ batch.pc = "returned" => Fulfilled = DiffIds /\ batch.thrown = << >>
  /\ batch.pc \in { "awaiting", "thrown", "returned" }

C5_Witness ==
  /\ batch.pc = "returned"
  /\ \E d \in DiffIds : diff[d].postErr # "none"

\* C6: once the first comment() call of a commentDiff has failed, commentDiff
\* has made exactly one more comment() call, with the descriptor's marker and
\* title; its bodyText is the could-not-be-posted message, whose link ends in
\* #artifacts and names the run's owner, repo and run id, and neither the
\* bodyText nor the composed body holds the diff or its fence.
C6_FallbackOnPostFailure ==
  \A d \in DiffIds :
    diff[d].postErr # "none"
      => LET f == call[d]
             link == LinkTarget(f.bodyText)
         IN  /\ diff[d].calls = 2
             /\ f.markerText = DIFFS[d].markerText
             /\ f.titleText = DIFFS[d].titleText
             /\ StartsWith(f.bodyText,
                  << "The diff could not be posted as a comment. You can download it from the " >>)
             /\ link # << >>
             /\ link[Len(link)] = "#artifacts"
             /\ Includes(link, << Ctx.owner, "/", Ctx.repo >>)
             /\ Includes(link, << "/actions/runs/", Ctx.runId >>)
             /\ ~Includes(f.body, << diff[d].diffText >>)
             /\ ~Includes(f.body, << "~~~diff\n" >>)

C6_Witness ==
  \E d \in DiffIds :
    /\ diff[d].postErr = "write"
    /\ diff[d].pc = "fulfilled"
    /\ \E i \in DOMAIN comments : comments[i].body = call[d].body

\* C7 as stated: when the read of the diff file has thrown, commentDiff has
\* called comment() with the artifacts-link message.
C7_ReadFailureFallsBack ==
  \A d \in DiffIds :
    diff[d].readErr
      => /\ call[d].pc # "idle"
         /\ call[d].bodyText = FallbackBodyText(Ctx)

\* C7 amended: when the comment() call that posts the diff has failed,
\* commentDiff has called comment() again with the artifacts-link message;
\* when the read of the diff file has thrown, commentDiff has rejected
\* without calling comment() at all.
C7_PostFailureFallsBack ==
  \A d \in DiffIds :
    /\ diff[d].postErr # "none"
         => /\ diff[d].calls = 2
            /\ call[d].bodyText = FallbackBodyText(Ctx)
    /\ diff[d].readErr
         => /\ diff[d].pc = "rejected"
            /\ diff[d].calls = 0
            /\ call[d].pc = "idle"
            /\ posted[DIFFS[d].markerText] = << >>

C7_Witness ==
  /\ \E d \in DiffIds : diff[d].readErr
  /\ \E d \in DiffIds : diff[d].postErr = "list" /\ call[d].pc = "ok"
  /\ batch.pc = "thrown"

\* C8 as stated: a failure of the diff post never makes commentDiff fail.
C8_PostFailureNeverSurfaces ==
  \A d \in DiffIds : diff[d].postErr # "none" => diff[d].pc # "rejected"

\* C8 amended: a failure of the diff post is answered by one call of
\* comment() with the fallback message; commentDiff fulfils when that call
\* succeeds and rejects when that call fails too, and it never rejects on
\* the failure of the diff post alone.
C8_SurfacesOnlyWithFallback ==
  \A d \in DiffIds :
    /\ diff[d].postErr # "none"
         => /\ diff[d].pc \in { "fallback", "fulfilled", "rejected" }
            /\ diff[d].calls = 2
            /\ diff[d].pc = "fallback" <=> call[d].pc \in { "list", "write" }
            /\ diff[d].pc = "fulfilled" <=> call[d].pc = "ok"
            /\ diff[d].pc = "rejected" <=> call[d].pc = "failed"
    /\ (diff[d].pc = "rejected" /\ ~diff[d].readErr) => diff[d].postErr # "none"

C8_Witness ==
  /\ \E d \in DiffIds : diff[d].postErr # "none" /\ diff[d].pc = "fulfilled"
  /\ \E d \in DiffIds : diff[d].postErr # "none" /\ diff[d].pc = "rejected"

\* C11: while the diff post of a commentDiff stands (no fallback), the
\* bodyText it passed to comment() is the fenced block around the literal
\* "No changes found." when the file read was empty, never an empty fenced
\* block, and the fenced block around the file's text when it was not empty.
C11_EmptyDiffPlaceholder ==
  \A d \in DiffIds :
    (diff[d].calls >= 1 /\ diff[d].postErr = "none")
      => LET text == diff[d].file[1]
             b    == call[d].bodyText
         IN  /\ text = "" => b = << "~~~diff\n", "No changes found.", "\n", "~~~" >>
             /\ text # "" => b = << "~~~diff\n", text, "\n", "~~~" >>
             /\ b # << "~~~diff\n", "", "\n", "~~~" >>
             /\ Includes(call[d].body, b)

C11_Witness ==
  \E d \in DiffIds :
    /\ diff[d].file = << "" >>
    /\ diff[d].pc = "fulfilled"
    /\ diff[d].postErr = "none"
    /\ \E i \in DOMAIN comments :
         Includes(comments[i].body, << "~~~diff\n", "No changes found.", "\n", "~~~" >>)

(***************************************************************************)
(* Properties of the build-package task, checked under SpecBuild           *)
(***************************************************************************)
\* C12: the steps are started in the order clean of the stats directory,
\* clean of the package directory, assets, fixtures, scripts, styles,
\* templates, copy of the govuk-prototype-kit files; at most one step is
\* running, a step is started only when all before it have completed, and
\* once a step has failed it is the last step started.
C12_SeriesOrder ==
  LET order == << "clean (stats)", "clean:package", "assets", "fixtures",
                  "scripts", "styles", "templates",
                  "copy:files 'govuk-prototype-kit'" >>
      b     == build
  IN  /\ Len(b.started) <= Len(order)
      /\ \A k \in DOMAIN b.started : b.started[k] = order[k]
      /\ \A k \in DOMAIN b.finished : b.finished[k] = order[k]
      /\ Len(b.failed) <= 1
      /\ Len(b.started) - Len(b.finished) - Len(b.failed) \in { 0, 1 }
      /\ Len(b.finished) + Len(b.failed) <= Len(b.started)
      /\ b.failed # << >>
           => /\ b.failed[1] = b.started[Len(b.started)]
              /\ Len(b.started) = Len(b.finished) + 1
      /\ b.pc = "done" => b.finished = order /\ b.failed = << >>

C12_Witness ==
  /\ build.pc = "failed"
  /\ build.failed = << "styles" >>
  /\ build.finished = << "clean (stats)", "clean:package", "assets", "fixtures", "scripts" >>
  /\ build.destDir = { "assets", "fixtures", "scripts" }

(***************************************************************************)
(* Properties of renderTable() and commentStats(), checked under SpecStats *)
(***************************************************************************)
Malformed(rows) == \E i \in DOMAIN rows : Len(rows[i]) # 2

\* C13: every call of renderTable with a row that has not the two cells of
\* the header threw and returned nothing; and a commentStats call whose
\* file-size rows or module rows were such has rejected without entering
\* comment(): no write request was made and the issue's comments are as they
\* were.
C13_MalformedRowsRejected ==
  /\ \A k \in DOMAIN stats.tables :
       Malformed(stats.tables[k].rows)
         => stats.tables[k].out.error /\ stats.tables[k].out.text = << >>
  /\ (Malformed(stats.fileSizeRows) \/ Malformed(stats.modulesRows))
       => /\ stats.pc = "rejected"
          /\ call[Client] = IdleFrame
          /\ comments = initial
          /\ \A m \in AllMarkerTexts : posted[m] = << >>

C13_Witness ==
  /\ stats.pc = "rejected"
  /\ Malformed(stats.fileSizeRows)
  /\ Len(comments) > PerPage

(***************************************************************************)
(* Properties of overlapping comment() calls, checked under SpecConc       *)
(***************************************************************************)
\* C14 as stated: whatever the interleaving of the calls, an issue that
\* started with at most one comment holding a marker token never holds two.
C14_NeverTwoPerMarker ==
  \A m \in MarkerTexts :
    Cardinality(Holders(initial, Marker(m))) <= 1
      => Cardinality(Holders(comments, Marker(m))) <= 1

\* C14 amended: as long as no two calls for marker text M have overlapped,
\* the calls for M have created a comment only when the issue held none with
\* the token, once, and have updated in place since: the number of comments
\* holding the token is the number the issue started with, or one when it
\* started with none and a call for M has succeeded.
C14_OncePerMarkerUnlessOverlap ==
  \A m \in MarkerTexts :
    m \notin raced
      => Cardinality(Holders(comments, Marker(m)))
           = IF Holders(initial, Marker(m)) # {}
               THEN Cardinality(Holders(initial, Marker(m)))
             ELSE IF posted[m] # << >> THEN 1
             ELSE 0

C14_Witness ==
  \E m \in MarkerTexts :
    /\ m \notin raced
    /\ Holders(initial, Marker(m)) = {}
    /\ Len(posted[m]) = MaxCalls
    /\ \A p \in Clients : call[p].pc = "ok" /\ call[p].markerText = m
    /\ \E p, q \in Clients : call[p].wrote[1].op = "create" /\ call[q].wrote[1].op = "update"

(***************************************************************************)
(* Properties of comment()'s listing loop, checked under SpecSeq           *)
(***************************************************************************)
\* C15 as stated: when a call has listed comments holding the marker token,
\* the comment it updates is the first of them in the order of the listing.
C15_FirstEncounteredWins ==
  LET f      == call[Client]
      listed == Flatten(f.pages)
      hits   == Holders(listed, Marker(f.markerText))
  IN  (f.wrote # << >> /\ hits # {})
        => /\ f.wrote[1].op = "update"
           /\ f.wrote[1].id = listed[CHOOSE i \in hits : \A j \in hits : i <= j].id

\* C16: a call of comment() has been given pages 1, 2, ... of the listing in
\* that order, one per request, and has one request outstanding at a time;
\* while it is listing it has made no write request; and when it makes its
\* single write request it has been given every comment of the issue, also
\* when an earlier page already held a match.
C16_ExhaustiveSequentialPagination ==
  LET f      == call[Client]
      listed == Flatten(f.pages)
      before == IF f.pc = "ok" /\ f.wrote # << >> /\ f.wrote[1].op = "create"
                  THEN SubSeq(comments, 1, Len(comments) - 1)
                  ELSE comments
  IN  /\ f.pc # "idle" => f.page = Len(f.pages) + 1
      /\ f.pc \in { "list", "write" }
           => \A k \in DOMAIN f.pages : f.pages[k] = PageOf(comments, k)
      /\ f.pc = "list" => f.wrote = << >> /\ f.page = 1 + Len(f.pages)
      /\ f.pc = "list" /\ f.pages # << >> => Len(comments) > Len(listed)
      /\ (f.pc = "write" \/ f.wrote # << >>)
           => /\ Len(f.wrote) <= 1
              /\ f.pages # << >>
              /\ Len(listed) = Len(before)
              /\ \A i \in DOMAIN listed : listed[i].id = before[i].id

C16_Witness ==
  LET f == call[Client]
  IN  /\ f.pc = "ok"
      /\ f.wrote[1].op = "update"
      /\ HitPages(f) = { 1 }
      /\ Len(f.pages) >= 3

\* C18: a step of comment() leaves every comment in place with its id, and
\* either changes nothing, or adds one comment at the end, or replaces the
\* body of one comment, the one whose id the request names, by the body the
\* call composed; the thread changes only at the successful write of a call,
\* which is its only write; a step at which the call fails changes nothing.
C18_Frame ==
  LET f       == call[Client]
      g       == call'[Client]
      changed == { i \in DOMAIN comments : comments'[i] # comments[i] }
      added   == Len(comments') - Len(comments)
  IN  /\ added \in { 0, 1 }
      /\ \A i \in DOMAIN comments : comments'[i].id = comments[i].id
      /\ Cardinality(changed) + added <= 1
      /\ comments' # comments
           => /\ f.pc = "write" /\ f.wrote = << >>
              /\ g.pc = "ok" /\ Len(g.wrote) = 1
              /\ added = 1 => /\ g.wrote[1].op = "create"
                              /\ comments'[Len(comments')].body = f.body
              /\ \A i \in changed : /\ g.wrote[1].op = "update"
                                    /\ comments[i].id = g.wrote[1].id
                                    /\ comments'[i].body = f.body
      /\ g.pc = "failed" => comments' = comments
      /\ g.pc \in { "list", "write" } => comments' = comments

C18_FrameOfUpsert == [][C18_Frame]_vars

C18_Witness ==
  LET f    == call[Client]
      hits == Holders(comments, Marker(f.markerText))
  IN  /\ f.pc = "ok"
      /\ f.wrote[1].op = "update"
      /\ Len(comments) = Len(initial)
      /\ Cardinality(hits) >= 2
      /\ Cardinality({ i \in DOMAIN comments : comments[i] # initial[i] }) = 1
      /\ \E i \in hits : comments[i].id # f.wrote[1].id /\ comments[i] = initial[i]

OwnBody(d) ==
  JoinLines(<< << "<!-- ", DIFFS[d].markerText, " -->" >>,
               << "## ", DIFFS[d].titleText >>,
               << "~~~diff\n",
                  IF diff[d].file = << "" >> THEN "No changes found." ELSE diff[d].file[1],
                  "\n", "~~~" >>,
               << "\n---" >>,
               renderCommentFooter(Ctx) >>)

AllPosted ==
  /\ batch.pc = "returned"
  /\ \A d \in DiffIds : diff[d].pc = "fulfilled" /\ diff[d].postErr = "none"

Token(d) == << "<!-- ", DIFFS[d].markerText, " -->" >>

\* C17 as stated: when every call succeeded, each marker ends with exactly
\* one comment holding its token, carrying the body of its own descriptor.
C17_ExactlyOnePerMarker ==
  AllPosted
    => \A d \in DiffIds :
         /\ Cardinality(Holders(comments, Token(d))) = 1
         /\ \A i \in Holders(comments, Token(d)) : comments[i].body = OwnBody(d)

\* C17 amended: no commentDiff updates a comment that did not hold its own
\* token, and none changes a comment holding another descriptor's token; when
\* every call succeeded, each marker has a comment carrying the body of its
\* own descriptor, no comment holds two tokens, and that comment is the only
\* one with its token provided the issue started with at most one.
C17_NonInterference ==
  /\ \A d \in DiffIds :
       call[d].wrote # << >> /\ call[d].wrote[1].op = "update"
         => \E i \in Holders(initial, Token(d)) : initial[i].id = call[d].wrote[1].id
  /\ \A d \in DiffIds, i \in DOMAIN initial :
       (Includes(initial[i].body, Token(d)) /\ comments[i] # initial[i])
         => \E k \in DOMAIN posted[DIFFS[d].markerText] :
              comments[i].body = posted[DIFFS[d].markerText][k]
  /\ AllPosted
       => \A d \in DiffIds :
            /\ \E i \in Holders(comments, Token(d)) : comments[i].body = OwnBody(d)
            /\ \A e \in DiffIds \ { d } :
                 Holders(comments, Token(d)) \cap Holders(comments, Token(e)) = {}
            /\ Cardinality(Holders(initial, Token(d))) <= 1
                 => /\ Cardinality(Holders(comments, Token(d))) = 1
                    /\ \A i \in Holders(comments, Token(d)) : comments[i].body = OwnBody(d)

C17_Witness ==
  /\ AllPosted
  /\ initial # << >>
  /\ \A d \in DiffIds : Cardinality(Holders(initial, Token(d))) <= 1
  /\ \E d, e \in DiffIds :
       /\ call[d].wrote[1].op = "update"
       /\ call[e].wrote[1].op = "create"
       /\ \E i \in DOMAIN comments :
            comments[i].id = call[d].wrote[1].id /\ comments[i].id < Len(initial)
              /\ i < Len(comments) /\ comments[i].body = OwnBody(d)

=============================================================================
